---- MODULE Spec2Model ----
(***************************************************************************)
(* A model of ts-doc-extract: the extraction engine (extractor.mjs), its   *)
(* comment and type helpers (comments.mjs, types.mjs) and the command-line *)
(* entry point (bin/ts-doc-extract.mjs).                                   *)
(*                                                                         *)
(* A JavaScript string is modelled as a sequence of one-character strings, *)
(* so that split, includes, startsWith, the extension regex and            *)
(* localeCompare are computed character by character.  What the parser     *)
(* (ts-morph) reports about a declaration is an input: a record of the     *)
(* answers its accessors give.                                             *)
(***************************************************************************)
EXTENDS Integers, Sequences, FiniteSets, TLC

VARIABLES
    pc,            \* position of the running operation
    filePath,      \* extractModule / deriveModuleName: the path argument
    variant,       \* extractModule: 'public' or 'internal'
    declarations,  \* the exported declarations, in the parser's enumeration order
    result,        \* what extractModule / deriveModuleName returned or threw
    argv,          \* CLI: process.argv.slice(2)
    readable,      \* CLI: whether readFileSync succeeds on the resolved path
    extraction,    \* CLI: whether extractModule returns or throws
    parsed,        \* CLI: the record parseArgs builds
    stdout,        \* CLI: documents written to standard output
    stderr,        \* CLI: messages written to standard error
    exitCode,      \* CLI: the process exit code, -1 while running
    jsDocTags,     \* extractFunction: the tags of the declaration's first JSDoc block
    paramNames,    \* extractFunction: the declaration's parameter names
    parameters,    \* extractFunction: symbol.parameters
    raw,           \* extractTypeInfo: type.getText()
    typeInfo       \* extractTypeInfo: the record returned

vars == <<pc, filePath, variant, declarations, result, argv, readable, extraction,
          parsed, stdout, stderr, exitCode, jsDocTags, paramNames, parameters,
          raw, typeInfo>>

extractVars == <<filePath, variant, declarations, result>>
cliVars == <<argv, readable, extraction, parsed, stdout, stderr, exitCode>>
commentVars == <<jsDocTags, paramNames, parameters>>
typeVars == <<raw, typeInfo>>

(***************************************************************************)
(* Bounds of the model.                                                    *)
(***************************************************************************)
MaxDecls == 3
MaxCtors == 2
MaxProps == 2
MaxMethods == 2
MaxSegments == 3
MaxArgs == 3
MaxTags == 2
MaxParams == 2
MaxDepth == 2

(***************************************************************************)
(* Strings.                                                                *)
(***************************************************************************)
SeqsUpTo(S, n) == UNION { [1..k -> S] : k \in 0..n }

StartsWith(s, t) == Len(t) <= Len(s) /\ SubSeq(s, 1, Len(t)) = t

EndsWith(s, t) == Len(t) <= Len(s) /\ SubSeq(s, Len(s) - Len(t) + 1, Len(s)) = t

Includes(s, t) == \E i \in 0..(Len(s) - Len(t)) : SubSeq(s, i + 1, i + Len(t)) = t

\* The outcomes of a call.
NoResult == [status |-> "none"]
Throws(e) == [status |-> "throws", error |-> e]
Returns(v) == [status |-> "returns", value |-> v]

(***************************************************************************)
(* String.prototype.localeCompare, on the characters the model uses: the   *)
(* collation compares the letters first (primary weights, '_' before every *)
(* letter) and only between strings with equal letters the case, lower     *)
(* case first.  It is case-sensitive: 'a' and 'A' compare unequal.         *)
(***************************************************************************)
PrimaryWeight(ch) ==
    CASE ch = "_" -> 0
      [] ch \in {"a", "A"} -> 1
      [] ch \in {"b", "B"} -> 2
      [] ch \in {"c", "C"} -> 3
      [] OTHER -> 4

TertiaryWeight(ch) == IF ch \in {"A", "B", "C"} THEN 1 ELSE 0

\* Lexicographic comparison of two weight sequences: -1, 0 or 1.
CompareWeights(u, v) ==
    LET n == IF Len(u) < Len(v) THEN Len(u) ELSE Len(v)
        diff == { i \in 1..n : u[i] # v[i] }
    IN  IF diff = {}
        THEN (IF Len(u) < Len(v) THEN -1 ELSE IF Len(u) > Len(v) THEN 1 ELSE 0)
        ELSE LET i == CHOOSE j \in diff : \A k \in diff : j <= k
             IN  IF u[i] < v[i] THEN -1 ELSE 1

localeCompare(a, b) ==
    LET p == CompareWeights([i \in 1..Len(a) |-> PrimaryWeight(a[i])],
                            [i \in 1..Len(b) |-> PrimaryWeight(b[i])])
    IN  IF p # 0 THEN p
        ELSE CompareWeights([i \in 1..Len(a) |-> TertiaryWeight(a[i])],
                            [i \in 1..Len(b) |-> TertiaryWeight(b[i])])

(***************************************************************************)
(* extractor.mjs: the classifier.                                          *)
(***************************************************************************)
\* getName(decl): the name accessor, else the symbol's name, else 'default'.
getName(decl) ==
    IF decl.hasGetName /\ decl.declName # <<>> THEN decl.declName
    ELSE IF decl.hasSymbol THEN decl.symbolName
    ELSE <<"d", "e", "f", "a", "u", "l", "t">>

\* checkPrivacy(decl): a private or protected modifier, or a '_' prefix.
checkPrivacy(decl) ==
    IF decl.hasModifierFn /\ decl.modifier = "private" THEN TRUE
    ELSE IF decl.hasModifierFn /\ decl.modifier = "protected" THEN TRUE
    ELSE StartsWith(getName(decl), <<"_">>)

\* mapKind(kindName)
mapKind(kindName) ==
    CASE kindName = "FunctionDeclaration" -> "function"
      [] kindName = "ArrowFunction" -> "function"
      [] kindName = "MethodDeclaration" -> "function"
      [] kindName = "ClassDeclaration" -> "class"
      [] kindName = "InterfaceDeclaration" -> "interface"
      [] kindName = "TypeAliasDeclaration" -> "type"
      [] kindName = "VariableDeclaration" -> "const"
      [] kindName = "EnumDeclaration" -> "enum"
      [] OTHER -> "unknown"

\* getVisibility(member)
getVisibility(member) ==
    IF member.modifier = "private" THEN "private"
    ELSE IF member.modifier = "protected" THEN "protected"
    ELSE "public"

compareMembersByNameOnly(a, b) == localeCompare(a.name, b.name)

\* The comparator of symbol.members.sort (extractClass).
compareMembers(a, b) ==
    IF a.kind = "constructor" THEN -1
    ELSE IF b.kind = "constructor" THEN 1
    ELSE IF a.kind # b.kind THEN (IF a.kind = "property" THEN -1 ELSE 1)
    ELSE localeCompare(a.name, b.name)

\* One insertion of a stable sort: x goes after the last element that does
\* not compare greater than it.
insertMember(sorted, x) ==
    LET le == { j \in 1..Len(sorted) : compareMembers(sorted[j], x) <= 0 }
        p == IF le = {} THEN 0 ELSE CHOOSE j \in le : \A k \in le : k <= j
    IN  SubSeq(sorted, 1, p) \o <<x>> \o SubSeq(sorted, p + 1, Len(sorted))

\* Array.prototype.sort with compareMembers: stable.
sortMembers(members) ==
    LET ins[k \in 0..Len(members)] ==
            IF k = 0 THEN <<>> ELSE insertMember(ins[k - 1], members[k])
    IN  ins[Len(members)]

SelectSeqKept(seq, keep) ==
    LET idx == { i \in 1..Len(seq) : keep[i] }
        f[k \in 0..Len(seq)] ==
            IF k = 0 THEN <<>>
            ELSE IF k \in idx THEN Append(f[k - 1], seq[k]) ELSE f[k - 1]
    IN  f[Len(seq)]

\* extractClass, before the sort: the first constructor, then the properties
\* and the methods that pass the visibility filter, in declaration order.
classMembers(decl, v) ==
    LET ctorPart ==
            IF Len(decl.ctors) > 0
            THEN << [kind |-> "constructor",
                     name |-> <<"c", "o", "n", "s", "t", "r", "u", "c", "t", "o", "r">>,
                     signature |-> decl.ctors[1].sig,
                     visibility |-> "public"] >>
            ELSE <<>>
        propAll == [i \in 1..Len(decl.props) |->
                      [kind |-> "property", name |-> decl.props[i].name,
                       signature |-> decl.props[i].sig,
                       visibility |-> getVisibility(decl.props[i])]]
        methodAll == [i \in 1..Len(decl.methods) |->
                      [kind |-> "method", name |-> decl.methods[i].name,
                       signature |-> decl.methods[i].sig,
                       visibility |-> getVisibility(decl.methods[i])]]
        keepP == [i \in 1..Len(propAll) |->
                      ~(v = "public" /\ propAll[i].visibility # "public")]
        keepM == [i \in 1..Len(methodAll) |->
                      ~(v = "public" /\ methodAll[i].visibility # "public")]
    IN  ctorPart \o SelectSeqKept(propAll, keepP) \o SelectSeqKept(methodAll, keepM)

extractClassFilterAlways(decl, symbol, v) ==
    [kind |-> symbol.kind, name |-> symbol.name, signature |-> symbol.signature,
     isPrivate |-> symbol.isPrivate,
     members |-> sortMembers(classMembers(decl, "public"))]

\* extractClass(decl, symbol, variant)
extractClass(decl, symbol, v) ==
    [kind |-> symbol.kind, name |-> symbol.name, signature |-> symbol.signature,
     isPrivate |-> symbol.isPrivate, members |-> sortMembers(classMembers(decl, v))]

\* A dropped declaration: extractSymbol returned null.
Null == [kind |-> "null"]

extractSymbolNoGate(decl, v) ==
    LET symbol == [kind |-> mapKind(decl.kindName), name |-> getName(decl),
                   signature |-> decl.sig, isPrivate |-> checkPrivacy(decl)]
    IN  IF symbol.kind = "class" THEN extractClass(decl, symbol, v) ELSE symbol

\* extractSymbol(decl, variant): null for a private declaration under
\* 'public', else the base record, with the members of a class.  sig stands
\* for the text buildSignature renders; the fields the other kinds add
\* (parameters, properties, typeInfo, enumValues) and the comments are copied
\* from the parser and no decision reads them.
extractSymbol(decl, v) ==
    LET isPrivate == checkPrivacy(decl)
        symbol == [kind |-> mapKind(decl.kindName), name |-> getName(decl),
                   signature |-> decl.sig, isPrivate |-> isPrivate]
    IN  IF v = "public" /\ isPrivate THEN Null
        ELSE IF symbol.kind = "class" THEN extractClass(decl, symbol, v)
        ELSE symbol

kindOrderConstAfterFunction(kind) ==
    CASE kind = "type" -> 0
      [] kind = "interface" -> 1
      [] kind = "const" -> 3
      [] kind = "function" -> 2
      [] kind = "class" -> 4
      [] kind = "enum" -> 5
      [] OTHER -> 99

\* kindOrder[kind] ?? 99
kindOrder(kind) ==
    CASE kind = "type" -> 0
      [] kind = "interface" -> 1
      [] kind = "const" -> 2
      [] kind = "function" -> 3
      [] kind = "class" -> 4
      [] kind = "enum" -> 5
      [] OTHER -> 99

\* The comparator of symbols.sort (extractModule).
compareSymbols(a, b) ==
    LET aOrder == kindOrder(a.kind)
        bOrder == kindOrder(b.kind)
    IN  IF aOrder # bOrder THEN aOrder - bOrder
        ELSE localeCompare(a.name, b.name)

insertSymbol(sorted, x) ==
    LET le == { j \in 1..Len(sorted) : compareSymbols(sorted[j], x) <= 0 }
        p == IF le = {} THEN 0 ELSE CHOOSE j \in le : \A k \in le : k <= j
    IN  SubSeq(sorted, 1, p) \o <<x>> \o SubSeq(sorted, p + 1, Len(sorted))

\* Array.prototype.sort with compareSymbols: stable.
sortSymbols(symbols) ==
    LET ins[k \in 0..Len(symbols)] ==
            IF k = 0 THEN <<>> ELSE insertSymbol(ins[k - 1], symbols[k])
    IN  ins[Len(symbols)]

collectSymbolsFirstOfName(decls, v) ==
    LET all == [i \in 1..Len(decls) |-> extractSymbol(decls[i], v)]
        keep == [i \in 1..Len(decls) |->
                    /\ all[i] # Null
                    /\ \A j \in 1..(i - 1) : getName(decls[j]) # getName(decls[i])]
    IN  SelectSeqKept(all, keep)

\* The loop of extractModule: every declaration classified, nulls skipped.
collectSymbols(decls, v) ==
    LET all == [i \in 1..Len(decls) |-> extractSymbol(decls[i], v)]
        keep == [i \in 1..Len(decls) |-> all[i] # Null]
    IN  SelectSeqKept(all, keep)

(***************************************************************************)
(* extractor.mjs: deriveModuleName.                                        *)
(***************************************************************************)
\* String.prototype.split on one separator character.
Split(s, sep) ==
    LET f[k \in 0..Len(s)] ==
            IF k = 0 THEN << <<>> >>
            ELSE LET prev == f[k - 1]
                     n == Len(prev)
                 IN  IF s[k] = sep THEN Append(prev, <<>>)
                     ELSE [prev EXCEPT ![n] = Append(prev[n], s[k])]
    IN  f[Len(s)]

\* Array.prototype.join
Join(segs, sep) ==
    LET f[k \in 0..Len(segs)] ==
            IF k = 0 THEN <<>>
            ELSE IF k = 1 THEN segs[1]
            ELSE f[k - 1] \o sep \o segs[k]
    IN  f[Len(segs)]

Extensions ==
    { <<".", "t", "s">>, <<".", "t", "s", "x">>, <<".", "j", "s">>, <<".", "j", "s", "x">> }

\* s.replace(/\.(ts|tsx|js|jsx)$/, '')
stripExtension(s) ==
    IF \E e \in Extensions : EndsWith(s, e)
    THEN LET e == CHOOSE x \in Extensions : EndsWith(s, x)
         IN  SubSeq(s, 1, Len(s) - Len(e))
    ELSE s

SrcMarker == <<"s", "r", "c">>
IndexName == <<"i", "n", "d", "e", "x">>

\* deriveModuleName(filePath).  With 'src' the last segment, afterSrc is
\* empty, last is undefined and last.replace raises a TypeError.
deriveModuleName(path) ==
    LET parts == Split(path, "/")
        srcAt == { i \in 1..Len(parts) : parts[i] = SrcMarker }
    IN  IF srcAt # {}
        THEN LET srcIndex == CHOOSE i \in srcAt : \A j \in srcAt : j <= i
                 afterSrc == SubSeq(parts, srcIndex + 1, Len(parts))
             IN  IF afterSrc = <<>> THEN Throws("TypeError")
                 ELSE LET n == Len(afterSrc)
                          stripped == [afterSrc EXCEPT ![n] = stripExtension(afterSrc[n])]
                          popped == IF stripped[n] = IndexName
                                    THEN SubSeq(stripped, 1, n - 1) ELSE stripped
                          kept == SelectSeqKept(popped,
                                      [i \in 1..Len(popped) |-> popped[i] # <<>>])
                      IN  Returns(Join(kept, <<".">>))
        ELSE Returns(stripExtension(parts[Len(parts)]))

\* extractModule(filePath, variant), given what the parser enumerates: decls
\* is the sequence the two nested loops visit (the declarations of each
\* exported name, name after name).  The object literal evaluates
\* deriveModuleName after the sort, so its exception is the call's.  imports,
\* hasDefaultExport and loc are read off the parser unchanged.
extractModule(path, decls, v) ==
    LET symbols == sortSymbols(collectSymbols(decls, v))
        module == deriveModuleName(path)
    IN  IF module.status = "throws" THEN module
        ELSE Returns([module |-> module.value,
                      filePath |-> path,
                      exports |-> symbols,
                      metadata |-> [exportCount |-> Len(symbols)]])

(***************************************************************************)
(* The inputs of extractModule: what the parser enumerates for a file.     *)
(***************************************************************************)
NameA == <<"a">>
NameUpperA == <<"A">>
NameB == <<"b">>
NameUpperB == <<"B">>
NameAb == <<"a", "b">>
NameUnderA == <<"_", "a">>
NameUnderB == <<"_", "b">>
NameC == <<"c">>

\* A declaration with a name accessor and a symbol.
Named(kindName, name, modifierable, modifier, sig) ==
    [kindName |-> kindName, hasGetName |-> TRUE, declName |-> name,
     hasSymbol |-> TRUE, symbolName |-> name,
     hasModifierFn |-> modifierable, modifier |-> modifier, sig |-> sig,
     ctors |-> <<>>, props |-> <<>>, methods |-> <<>>]

\* export default function () {}: the name accessor yields nothing, the symbol
\* is named 'default'.
AnonymousDefaultFunction ==
    [Named("FunctionDeclaration", <<>>, TRUE, "none", "fn-default")
        EXCEPT !.symbolName = <<"d", "e", "f", "a", "u", "l", "t">>]

\* export default { ... }: an expression, with neither accessor nor symbol.
DefaultExpression ==
    [Named("ObjectLiteralExpression", <<>>, FALSE, "none", "expr-default")
        EXCEPT !.hasGetName = FALSE, !.hasSymbol = FALSE]

\* A property or a method; sig stands for its signature text.
Member(name, modifier) ==
    [name |-> name, modifier |-> modifier, sig |-> [text |-> name, n |-> 0]]

Ctors(n) == [i \in 1..n |-> [sig |-> [text |-> <<"c", "t", "o", "r">>, n |-> i]]]

ClassDecl(name, nCtors, props, methods, sig) ==
    [Named("ClassDeclaration", name, TRUE, "none", sig)
        EXCEPT !.ctors = Ctors(nCtors), !.props = props, !.methods = methods]

MemberUniverse ==
    { Member(NameB, "none"), Member(NameA, "none"), Member(NameUnderB, "none"),
      Member(NameUpperB, "private"), Member(NameC, "protected") }

DeclUniverse ==
    { Named("TypeAliasDeclaration", NameB, TRUE, "none", "type-b"),
      Named("InterfaceDeclaration", NameA, TRUE, "none", "interface-a-1"),
      Named("InterfaceDeclaration", NameA, TRUE, "none", "interface-a-2"),
      Named("VariableDeclaration", NameUnderA, FALSE, "none", "const-_a"),
      Named("VariableDeclaration", NameUpperA, FALSE, "none", "const-A"),
      Named("FunctionDeclaration", NameA, TRUE, "private", "function-a"),
      Named("FunctionDeclaration", NameAb, TRUE, "none", "function-ab"),
      Named("EnumDeclaration", NameUpperB, TRUE, "protected", "enum-B"),
      Named("EnumDeclaration", NameA, TRUE, "none", "enum-a"),
      AnonymousDefaultFunction,
      DefaultExpression,
      ClassDecl(NameAb, 1, << Member(NameUpperB, "private") >>,
                << Member(NameUnderB, "none"), Member(NameA, "none") >>, "class-ab") }

\* Files of several declarations, and files of one class with any body.
MixedFiles == SeqsUpTo(DeclUniverse, MaxDecls)

ClassFiles ==
    { << ClassDecl(NameA, n, ps, ms, "class-a") >> :
        n \in 0..MaxCtors,
        ps \in SeqsUpTo(MemberUniverse, MaxProps),
        ms \in SeqsUpTo(MemberUniverse, MaxMethods) }

\* /p/src/db/a.ts and /p/src
ExtractPaths ==
    { <<"/", "p", "/", "s", "r", "c", "/", "d", "b", "/", "a", ".", "t", "s">>,
      <<"/", "p", "/", "s", "r", "c">> }

Idle == [status |-> "idle"]

InitExtract ==
    /\ pc = "start"
    /\ filePath \in ExtractPaths
    /\ variant \in {"public", "internal"}
    /\ declarations \in MixedFiles \cup ClassFiles
    /\ result = NoResult
    /\ argv = <<>> /\ readable = FALSE /\ extraction = "none" /\ parsed = Idle
    /\ stdout = <<>> /\ stderr = <<>> /\ exitCode = -1
    /\ jsDocTags = <<>> /\ paramNames = <<>> /\ parameters = <<>>
    /\ raw = <<>> /\ typeInfo = Idle

\* extractModule(filePath, variant)
ExtractModule ==
    /\ pc = "start"
    /\ result' = extractModule(filePath, declarations, variant)
    /\ pc' = "done"
    /\ UNCHANGED <<filePath, variant, declarations>>
    /\ UNCHANGED <<cliVars, commentVars, typeVars>>

NextExtract == ExtractModule

SpecExtract == InitExtract /\ [][NextExtract]_vars

(***************************************************************************)
(* Claims about extractModule.                                             *)
(***************************************************************************)
Returned == pc = "done" /\ result.status = "returns"

Exports == result.value.exports

ClassRecords == { i \in 1..Len(Exports) : Exports[i].kind = "class" }

\* The kind priority as the specification states it.
StatedPriority(kind) ==
    CASE kind = "type" -> 0
      [] kind = "interface" -> 1
      [] kind = "const" -> 2
      [] kind = "function" -> 3
      [] kind = "class" -> 4
      [] kind = "enum" -> 5
      [] kind = "unknown" -> 99

C2_UnderscoreMembersExcluded ==
    (Returned /\ variant = "public") =>
        \A i \in ClassRecords :
            \A k \in 1..Len(Exports[i].members) :
                Exports[i].members[k].kind \in {"property", "method"}
                    => ~StartsWith(Exports[i].members[k].name, <<"_">>)

\* A declaration the claims call private: a private or protected modifier, or
\* a resolved name that starts with '_'.
Restricted(decl) ==
    \/ decl.modifier \in {"private", "protected"}
    \/ StartsWith(getName(decl), <<"_">>)

\* C3: under 'public' no record of exports has isPrivate = true, every
\* declaration with a private or protected modifier or a '_' name is dropped
\* (exports holds as many records as there are other declarations), and no
\* member of a class record is private or protected.
C3_PublicHidesPrivate ==
    (Returned /\ variant = "public") =>
        /\ \A i \in 1..Len(Exports) :
               /\ ~Exports[i].isPrivate
               /\ ~StartsWith(Exports[i].name, <<"_">>)
        /\ Len(Exports) =
               Cardinality({ i \in 1..Len(declarations) : ~Restricted(declarations[i]) })
        /\ \A i \in ClassRecords :
               \A k \in 1..Len(Exports[i].members) :
                   Exports[i].members[k].visibility \notin {"private", "protected"}

\* A 'public' run over a declaration with a modifier, one with a '_' name and
\* a class with a private member, of which only the class is kept.
C3_Witness ==
    /\ Returned /\ variant = "public"
    /\ \E i \in 1..Len(declarations) : declarations[i].modifier = "private"
    /\ \E i \in 1..Len(declarations) :
           /\ declarations[i].modifier = "none"
           /\ StartsWith(getName(declarations[i]), <<"_">>)
    /\ \E i \in 1..Len(declarations) :
           /\ declarations[i].kindName = "ClassDeclaration"
           /\ \E k \in 1..Len(declarations[i].props) :
                  declarations[i].props[k].modifier = "private"
    /\ Len(Exports) = 1

\* The visibility the modifier of a member states.
StatedVisibility(m) ==
    CASE m.modifier = "private" -> "private"
      [] m.modifier = "protected" -> "protected"
      [] OTHER -> "public"

\* The members of a class declaration, every constructor included (nCtors
\* bounds how many of the constructors are counted).
StatedMembers(decl, nCtors) ==
    [i \in 1..nCtors |->
        [kind |-> "constructor", signature |-> decl.ctors[i].sig, visibility |-> "public"]]
    \o [i \in 1..Len(decl.props) |->
        [kind |-> "property", signature |-> decl.props[i].sig,
         visibility |-> StatedVisibility(decl.props[i])]]
    \o [i \in 1..Len(decl.methods) |->
        [kind |-> "method", signature |-> decl.methods[i].sig,
         visibility |-> StatedVisibility(decl.methods[i])]]

Count(seq, x) == Cardinality({ i \in 1..Len(seq) : seq[i] = x })

SameBag(s, t) ==
    /\ Len(s) = Len(t)
    /\ \A i \in 1..Len(s) : Count(s, s[i]) = Count(t, s[i])

MemberKeys(members) ==
    [k \in 1..Len(members) |->
        [kind |-> members[k].kind, signature |-> members[k].signature,
         visibility |-> members[k].visibility]]

\* Every declaration has a record of its own, and the record of every class
\* holds the class's properties and methods and its first nCtors(decl)
\* constructors.
NothingFiltered(firstOnly) ==
    /\ SameBag([i \in 1..Len(Exports) |-> Exports[i].signature],
               [i \in 1..Len(declarations) |-> declarations[i].sig])
    /\ \A i \in 1..Len(declarations) :
           declarations[i].kindName = "ClassDeclaration" =>
               \E j \in ClassRecords :
                   /\ Exports[j].signature = declarations[i].sig
                   /\ SameBag(MemberKeys(Exports[j].members),
                              StatedMembers(declarations[i],
                                  IF firstOnly /\ Len(declarations[i].ctors) > 0
                                  THEN 1 ELSE Len(declarations[i].ctors)))

\* C4 as stated: under 'internal' every exported declaration yields a record
\* and every constructor, property and method of an exported class appears
\* in the class's members.
C4_InternalKeepsEveryMember ==
    (Returned /\ variant = "internal") => NothingFiltered(FALSE)

\* C4 as amended: under 'internal' every exported declaration yields a record
\* and every property and method of an exported class appears in the class's
\* members, with the first declared constructor only.
C4_InternalKeepsAllButLaterCtors ==
    (Returned /\ variant = "internal") => NothingFiltered(TRUE)

\* An 'internal' run over a class with two constructors, a private property
\* and a protected method.
C4_Witness ==
    /\ Returned /\ variant = "internal"
    /\ Len(declarations) = 1
    /\ Len(declarations[1].ctors) = MaxCtors
    /\ \E k \in 1..Len(declarations[1].props) :
           declarations[1].props[k].modifier = "private"
    /\ \E k \in 1..Len(declarations[1].methods) :
           declarations[1].methods[k].modifier = "protected"
    /\ Len(Exports[1].members) = 1 + Len(declarations[1].props) + Len(declarations[1].methods)

Reorderings(seq) ==
    { [i \in 1..Len(seq) |-> seq[f[i]]] :
        f \in { g \in [1..Len(seq) -> 1..Len(seq)] :
                  \A i, j \in 1..Len(seq) : g[i] = g[j] => i = j } }

\* C5: the exports returned do not depend on the order in which the
\* declarations are enumerated: every other order of the same declarations
\* gives the same sequence, record for record.
C5_ExportsIndependentOfOrder ==
    Returned =>
        \A other \in Reorderings(declarations) :
            extractModule(filePath, other, variant).value.exports = Exports

\* C6: in the members of every class record the constructor, when present, is
\* at index 0, every property precedes every method, and within the
\* properties and within the methods the names ascend.
C6_MembersOrdered ==
    Returned =>
        \A i \in ClassRecords :
            LET ms == Exports[i].members
            IN  \A k \in 1..Len(ms) :
                    /\ ms[k].kind = "constructor" => k = 1
                    /\ \A l \in (k + 1)..Len(ms) :
                           /\ ~(ms[k].kind = "method" /\ ms[l].kind = "property")
                           /\ ms[k].kind = ms[l].kind
                                 => localeCompare(ms[k].name, ms[l].name) <= 0

\* A class with a constructor, two properties and two methods declared in
\* descending name order.
C6_Witness ==
    /\ Returned
    /\ Len(declarations) = 1
    /\ Len(declarations[1].ctors) > 0
    /\ Len(declarations[1].props) = MaxProps
    /\ Len(declarations[1].methods) = MaxMethods
    /\ localeCompare(declarations[1].props[1].name, declarations[1].props[MaxProps].name) > 0
    /\ localeCompare(declarations[1].methods[1].name, declarations[1].methods[MaxMethods].name) > 0
    /\ Len(Exports[1].members) = 1 + MaxProps + MaxMethods

(***************************************************************************)
(* deriveModuleName on its own: paths of up to MaxSegments segments.       *)
(***************************************************************************)
SegmentUniverse ==
    { <<>>,
      SrcMarker,
      <<"d", "b">>,
      IndexName,
      <<"i", "n", "d", "e", "x", ".", "t", "s">>,
      <<"a", ".", "t", "s">>,
      <<"a", ".", "j", "s", "x">>,
      <<"s", "r", "c", ".", "j", "s">>,
      <<".", "t", "s", "x">> }

Paths ==
    { Join(segs, <<"/">>) :
        segs \in UNION { [1..k -> SegmentUniverse] : k \in 1..MaxSegments } }

InitPath ==
    /\ pc = "start"
    /\ filePath \in Paths
    /\ variant = "public"
    /\ declarations = <<>>
    /\ result = NoResult
    /\ argv = <<>> /\ readable = FALSE /\ extraction = "none" /\ parsed = Idle
    /\ stdout = <<>> /\ stderr = <<>> /\ exitCode = -1
    /\ jsDocTags = <<>> /\ paramNames = <<>> /\ parameters = <<>>
    /\ raw = <<>> /\ typeInfo = Idle

\* deriveModuleName(filePath)
DeriveModuleName ==
    /\ pc = "start"
    /\ result' = deriveModuleName(filePath)
    /\ pc' = "done"
    /\ UNCHANGED <<filePath, variant, declarations>>
    /\ UNCHANGED <<cliVars, commentVars, typeVars>>

NextPath == DeriveModuleName

SpecPath == InitPath /\ [][NextPath]_vars

\* The module name the specification states for a path.
StatedModuleName(path) ==
    LET segs == Split(path, "/")
        marks == { i \in 1..Len(segs) : segs[i] = SrcMarker }
    IN  IF marks = {}
        THEN stripExtension(segs[Len(segs)])
        ELSE LET last == CHOOSE i \in marks : \A j \in marks : j <= i
                 n == Len(segs) - last
                 after == [i \in 1..n |->
                             IF i = n THEN stripExtension(segs[last + i])
                             ELSE segs[last + i]]
                 m == IF n > 0 /\ after[n] = IndexName THEN n - 1 ELSE n
                 named == SelectSeqKept([i \in 1..m |-> after[i]],
                                        [i \in 1..m |-> after[i] # <<>>])
             IN  Join(named, <<".">>)

\* C7: deriveModuleName(path) is, when a segment of path equals 'src', the
\* '.'-join of the non-empty segments after the last 'src', the extension
\* stripped from the final segment and that segment dropped when it is then
\* 'index'; else the last segment with its extension stripped.
C7_ModuleNameAsStated ==
    pc = "done" => result = Returns(StatedModuleName(filePath))

(***************************************************************************)
(* bin/ts-doc-extract.mjs: one run of the command line.                    *)
(***************************************************************************)
HelpLong == <<"-", "-", "h", "e", "l", "p">>
HelpShort == <<"-", "h">>
VariantPrefix == <<"-", "-", "v", "a", "r", "i", "a", "n", "t", "=">>
DashDash == <<"-", "-">>
Public == <<"p", "u", "b", "l", "i", "c">>
Internal == <<"i", "n", "t", "e", "r", "n", "a", "l">>

ArgUniverse ==
    { HelpLong,
      HelpShort,
      VariantPrefix \o Public,
      VariantPrefix \o Internal,
      VariantPrefix \o <<"x">>,
      VariantPrefix \o Public \o <<"=", "x">>,
      VariantPrefix,
      <<"-", "-", "x">>,
      <<"a", ".", "t", "s">>,
      <<>> }

InitCLI ==
    /\ pc = "main"
    /\ argv \in SeqsUpTo(ArgUniverse, MaxArgs)
    /\ readable \in BOOLEAN
    /\ extraction \in {"returns", "throws"}
    /\ parsed = [hasFilePath |-> FALSE, filePath |-> <<>>, variant |-> Public, next |-> 1]
    /\ stdout = <<>> /\ stderr = <<>> /\ exitCode = -1
    /\ filePath = <<>> /\ variant = "public" /\ declarations = <<>> /\ result = NoResult
    /\ jsDocTags = <<>> /\ paramNames = <<>> /\ parameters = <<>>
    /\ raw = <<>> /\ typeInfo = Idle

\* process.exit(code), after the messages written to standard error.
Exit(code, messages) ==
    /\ exitCode' = code
    /\ stderr' = stderr \o messages
    /\ pc' = "exited"

\* main: if (args.length === 0) { printUsage(); process.exit(1); }
Main ==
    /\ pc = "main"
    /\ IF Len(argv) = 0
       THEN Exit(1, <<"usage">>) /\ UNCHANGED <<parsed, stdout>>
       ELSE /\ pc' = "parseArgs"
            /\ UNCHANGED <<parsed, stdout, stderr, exitCode>>
    /\ UNCHANGED <<argv, readable, extraction>>
    /\ UNCHANGED <<extractVars, commentVars, typeVars>>

\* The body of parseArgs's loop for an argument that is not a help request.
parseArg(p, arg) ==
    IF StartsWith(arg, VariantPrefix)
    THEN [p EXCEPT !.variant = Split(arg, "=")[2], !.next = p.next + 1]
    ELSE IF ~StartsWith(arg, DashDash)
    THEN [p EXCEPT !.hasFilePath = TRUE, !.filePath = arg, !.next = p.next + 1]
    ELSE [p EXCEPT !.next = p.next + 1]

\* parseArgs: one iteration of the loop, or the return after the last one.
ParseArgs ==
    /\ pc = "parseArgs"
    /\ IF parsed.next > Len(argv)
       THEN /\ pc' = "checkFilePath"
            /\ UNCHANGED <<parsed, stdout, stderr, exitCode>>
       ELSE IF argv[parsed.next] = HelpLong \/ argv[parsed.next] = HelpShort
       THEN Exit(0, <<"usage">>) /\ UNCHANGED <<parsed, stdout>>
       ELSE /\ parsed' = parseArg(parsed, argv[parsed.next])
            /\ UNCHANGED <<pc, stdout, stderr, exitCode>>
    /\ UNCHANGED <<argv, readable, extraction>>
    /\ UNCHANGED <<extractVars, commentVars, typeVars>>

\* main: if (!filePath) { ...; process.exit(1); }
CheckFilePath ==
    /\ pc = "checkFilePath"
    /\ IF ~parsed.hasFilePath \/ parsed.filePath = <<>>
       THEN Exit(1, <<"Error: file-path argument required", "usage">>)
       ELSE pc' = "validateVariant" /\ UNCHANGED <<stderr, exitCode>>
    /\ UNCHANGED <<argv, readable, extraction, parsed, stdout>>
    /\ UNCHANGED <<extractVars, commentVars, typeVars>>

variantAcceptedAlways(v) == TRUE

\* variant === 'public' || variant === 'internal'
variantAccepted(v) == v = Public \/ v = Internal

\* main: the validation of variant
ValidateVariant ==
    /\ pc = "validateVariant"
    /\ IF ~variantAccepted(parsed.variant)
       THEN Exit(1, <<"Error: variant must be 'public' or 'internal'", "usage">>)
       ELSE pc' = "readFile" /\ UNCHANGED <<stderr, exitCode>>
    /\ UNCHANGED <<argv, readable, extraction, parsed, stdout>>
    /\ UNCHANGED <<extractVars, commentVars, typeVars>>

\* main: try { readFileSync(absolutePath) } catch { ...; process.exit(1); }
ReadFile ==
    /\ pc = "readFile"
    /\ IF ~readable
       THEN Exit(1, <<"Error: cannot read file">>)
       ELSE pc' = "extract" /\ UNCHANGED <<stderr, exitCode>>
    /\ UNCHANGED <<argv, readable, extraction, parsed, stdout>>
    /\ UNCHANGED <<extractVars, commentVars, typeVars>>

\* main: try { console.log(JSON.stringify(extractModule(...))) } catch
\* { ...; process.exit(1); }, and the normal end of the process.  With DEBUG
\* set the catch writes the stack to standard error as well.
Extract ==
    /\ pc = "extract"
    /\ IF extraction = "throws"
       THEN Exit(1, <<"Error: extraction failed">>) /\ UNCHANGED stdout
       ELSE /\ stdout' = Append(stdout, "JSON.stringify(result, null, 2)")
            /\ exitCode' = 0
            /\ pc' = "exited"
            /\ UNCHANGED stderr
    /\ UNCHANGED <<argv, readable, extraction, parsed>>
    /\ UNCHANGED <<extractVars, commentVars, typeVars>>

NextCLI ==
    \/ Main
    \/ ParseArgs
    \/ CheckFilePath
    \/ ValidateVariant
    \/ ReadFile
    \/ Extract

SpecCLI == InitCLI /\ [][NextCLI]_vars

\* What the command line states, read off argv.
HelpRequested == \E i \in 1..Len(argv) : argv[i] \in {HelpLong, HelpShort}

PathArgs == { i \in 1..Len(argv) : ~StartsWith(argv[i], DashDash) }

VariantArgs == { i \in 1..Len(argv) : StartsWith(argv[i], VariantPrefix) }

\* No file path: no argument is one, or the last one is the empty string.
NoFilePathGiven ==
    \/ PathArgs = {}
    \/ argv[CHOOSE i \in PathArgs : \A j \in PathArgs : j <= i] = <<>>

\* The variant value of the last --variant= argument, the text after the
\* prefix up to a further '=', is neither 'public' nor 'internal'.
BadVariantGiven ==
    /\ VariantArgs # {}
    /\ LET arg == argv[CHOOSE i \in VariantArgs : \A j \in VariantArgs : j <= i]
           rest == SubSeq(arg, Len(VariantPrefix) + 1, Len(arg))
           eqs == { i \in 1..Len(rest) : rest[i] = "=" }
           value == IF eqs = {} THEN rest
                    ELSE SubSeq(rest, 1, (CHOOSE i \in eqs : \A j \in eqs : i <= j) - 1)
       IN  value \notin {Public, Internal}

RunFails ==
    \/ Len(argv) = 0
    \/ NoFilePathGiven
    \/ BadVariantGiven
    \/ ~readable
    \/ extraction = "throws"

\* C8: a run ends with exit code 1 and nothing on standard output when no
\* argument or no file path is given, the variant is not 'public' or
\* 'internal', the file cannot be read or extraction throws; it writes exactly
\* one JSON document and ends with exit code 0 only when all four checks
\* pass; a help request ends with exit code 0, usage text and no JSON; and no
\* run has written a document when it fails, nor a second one.
C8_ExitCodeAndOutput ==
    /\ Len(stdout) <= 1
    /\ stdout # <<>> => exitCode = 0
    /\ pc # "exited" => exitCode = -1 /\ stdout = <<>>
    /\ pc = "exited" =>
           IF HelpRequested
           THEN exitCode = 0 /\ stdout = <<>> /\ stderr = <<"usage">>
           ELSE IF RunFails
           THEN exitCode = 1 /\ stdout = <<>> /\ stderr # <<>>
           ELSE exitCode = 0 /\ Len(stdout) = 1 /\ stderr = <<>>

\* A successful run with a path, an ignored flag and --variant=internal.
C8_Witness ==
    /\ pc = "exited" /\ exitCode = 0 /\ Len(stdout) = 1
    /\ Len(argv) = MaxArgs
    /\ parsed.variant = Internal
    /\ \E i \in 1..Len(argv) : StartsWith(argv[i], DashDash) /\ i \notin VariantArgs

(***************************************************************************)
(* comments.mjs: extractJSDoc and extractParamComment, as extractFunction  *)
(* uses them.  A tag as the parser reports it has a tag name, for a        *)
(* @param tag the parameter it documents, and the comment after it.        *)
(***************************************************************************)
Undefined == [present |-> FALSE, text |-> <<>>]
Defined(text) == [present |-> TRUE, text |-> text]

ParamTag == <<"p", "a", "r", "a", "m">>
ReturnsTag == <<"r", "e", "t", "u", "r", "n", "s">>

\* extractJSDoc(decl): undefined without a JSDoc block, else the tags of the
\* first block as { name, text }, text '' for a tag with no comment.
extractJSDoc(doc) ==
    IF ~doc.hasJsDoc THEN [present |-> FALSE, tags |-> <<>>]
    ELSE [present |-> TRUE,
          tags |-> [i \in 1..Len(doc.tags) |->
                      [name |-> doc.tags[i].tagName, text |-> doc.tags[i].comment]]]

\* extractParamComment(jsDoc, paramName): the text of the first 'param' tag
\* whose text includes paramName.
extractParamComment(jsDoc, paramName) ==
    IF ~jsDoc.present THEN Undefined
    ELSE LET hits == { i \in 1..Len(jsDoc.tags) :
                         /\ jsDoc.tags[i].name = ParamTag
                         /\ Includes(jsDoc.tags[i].text, paramName) }
         IN  IF hits = {} THEN Undefined
             ELSE Defined(jsDoc.tags[CHOOSE i \in hits : \A j \in hits : i <= j].text)

\* extractFunction: symbol.parameters (name and comment)
extractFunction(doc, names) ==
    [k \in 1..Len(names) |->
        [name |-> names[k], comment |-> extractParamComment(extractJSDoc(doc), names[k])]]

ParamId == <<"i", "d">>
ParamUid == <<"u", "i", "d">>
ParamX == <<"x">>
ParamNameUniverse == { ParamId, ParamUid, ParamX }

CommentUniverse ==
    { <<>>, <<"-", " ", "a">>, <<"-", " ", "i", "d">>, <<"-", " ", "x", " ", "y">> }

TagUniverse ==
    { [tagName |-> ParamTag, target |-> t, comment |-> c] :
        t \in ParamNameUniverse, c \in CommentUniverse }
    \cup { [tagName |-> ReturnsTag, target |-> <<>>, comment |-> c] :
             c \in { <<"-", " ", "a">>, <<"-", " ", "i", "d">> } }

InitComment ==
    /\ pc = "start"
    /\ jsDocTags \in { [hasJsDoc |-> h, tags |-> ts] :
                         h \in BOOLEAN, ts \in SeqsUpTo(TagUniverse, MaxTags) }
    /\ jsDocTags.hasJsDoc \/ jsDocTags.tags = <<>>
    /\ paramNames \in SeqsUpTo(ParamNameUniverse, MaxParams)
    /\ parameters = <<>>
    /\ argv = <<>> /\ readable = FALSE /\ extraction = "none" /\ parsed = Idle
    /\ stdout = <<>> /\ stderr = <<>> /\ exitCode = -1
    /\ filePath = <<>> /\ variant = "public" /\ declarations = <<>> /\ result = NoResult
    /\ raw = <<>> /\ typeInfo = Idle

\* extractFunction(decl, symbol)
ExtractFunction ==
    /\ pc = "start"
    /\ parameters' = extractFunction(jsDocTags, paramNames)
    /\ pc' = "done"
    /\ UNCHANGED <<jsDocTags, paramNames>>
    /\ UNCHANGED <<extractVars, cliVars, typeVars>>

NextComment == ExtractFunction

SpecComment == InitComment /\ [][NextComment]_vars

\* The '@param p - text' tags of the JSDoc block: those that document
\* parameter p and carry a text.
TagsFor(p) ==
    { i \in 1..Len(jsDocTags.tags) :
        /\ jsDocTags.tags[i].tagName = ParamTag
        /\ jsDocTags.tags[i].target = p
        /\ jsDocTags.tags[i].comment # <<>> }

\* C9: for every parameter p for which the JSDoc block holds a '@param p - text'
\* tag, the lookup returns the text of such a tag (not absent, not the text
\* of a tag that documents another parameter), and the function record's
\* parameter p carries it.
C9_ParamCommentIsItsTag ==
    pc = "done" =>
        \A k \in 1..Len(parameters) :
            TagsFor(parameters[k].name) # {} =>
                /\ parameters[k].comment.present
                /\ \E i \in TagsFor(parameters[k].name) :
                       parameters[k].comment.text = jsDocTags.tags[i].comment

(***************************************************************************)
(* types.mjs: extractTypeInfo.                                             *)
(***************************************************************************)
\* String.prototype.trim, for the space character.
Trim(s) ==
    LET solid == { i \in 1..Len(s) : s[i] # " " }
    IN  IF solid = {} THEN <<>>
        ELSE SubSeq(s, CHOOSE i \in solid : \A j \in solid : i <= j,
                       CHOOSE i \in solid : \A j \in solid : j <= i)

\* typeStr.match(/<(.+)>$/): the capture of the leftmost match, which starts
\* at the first '<' that has a character between it and a '>' ending the
\* string; no match when the string does not end in '>'.
matchAngle(typeStr) ==
    LET starts == { i \in 1..Len(typeStr) :
                      /\ typeStr[i] = "<"
                      /\ Len(typeStr) >= i + 2
                      /\ typeStr[Len(typeStr)] = ">" }
    IN  IF starts = {} THEN [matched |-> FALSE, group |-> <<>>]
        ELSE [matched |-> TRUE,
              group |-> SubSeq(typeStr,
                               (CHOOSE i \in starts : \A j \in starts : i <= j) + 1,
                               Len(typeStr) - 1)]

\* extractTypeParameters(typeStr)
extractTypeParameters(typeStr) ==
    IF ~Includes(typeStr, <<"<">>) THEN <<>>
    ELSE LET match == matchAngle(typeStr)
         IN  IF ~match.matched THEN <<>>
             ELSE LET pieces == Split(match.group, ",")
                  IN  [i \in 1..Len(pieces) |-> Trim(pieces[i])]

\* extractTypeInfo(type)
extractTypeInfo(text) ==
    [raw |-> text,
     isGeneric |-> Includes(text, <<"<">>),
     typeParameters |-> extractTypeParameters(text)]

\* The type texts the parser prints: names, arrays, unions and generic
\* instantiations of one or two arguments, nested to MaxDepth.
TypeTexts[d \in 0..MaxDepth] ==
    IF d = 0 THEN { <<"a">>, <<"b">> }
    ELSE LET T == TypeTexts[d - 1]
         IN  T \cup { <<"M", "<">> \o t \o <<">">> : t \in T }
               \cup { <<"M", "<">> \o t \o <<",", " ">> \o u \o <<">">> : t \in T, u \in T }
               \cup { t \o <<"[", "]">> : t \in T }
               \cup { t \o <<" ", "|", " ">> \o u : t \in T, u \in T }

InitType ==
    /\ pc = "start"
    /\ raw \in TypeTexts[MaxDepth]
    /\ typeInfo = Idle
    /\ argv = <<>> /\ readable = FALSE /\ extraction = "none" /\ parsed = Idle
    /\ stdout = <<>> /\ stderr = <<>> /\ exitCode = -1
    /\ filePath = <<>> /\ variant = "public" /\ declarations = <<>> /\ result = NoResult
    /\ jsDocTags = <<>> /\ paramNames = <<>> /\ parameters = <<>>

\* extractTypeInfo(type)
ExtractTypeInfo ==
    /\ pc = "start"
    /\ typeInfo' = extractTypeInfo(raw)
    /\ pc' = "done"
    /\ UNCHANGED raw
    /\ UNCHANGED <<extractVars, cliVars, commentVars>>

NextType == ExtractTypeInfo

SpecType == InitType /\ [][NextType]_vars

\* The nesting depth of '<' and '>' before position i of s.
AngleDepth(s, i) ==
    Cardinality({ j \in 1..(i - 1) : s[j] = "<" })
        - Cardinality({ j \in 1..(i - 1) : s[j] = ">" })

\* s split on its commas outside every '<...>', each piece trimmed.
SplitTopLevel(s) ==
    LET cuts == { i \in 1..Len(s) : s[i] = "," /\ AngleDepth(s, i) = 0 }
        bounds == cuts \cup {0, Len(s) + 1}
        nth[k \in 1..Cardinality(bounds)] ==
            IF k = 1 THEN 0
            ELSE CHOOSE b \in bounds : b > nth[k - 1] /\ \A c \in bounds : c > nth[k - 1] => b <= c
    IN  [k \in 1..(Cardinality(bounds) - 1) |-> Trim(SubSeq(s, nth[k] + 1, nth[k + 1] - 1))]

\* The type parameters the specification states for a type text.
StatedTypeParameters(s) ==
    LET opens == { i \in 1..Len(s) : s[i] = "<" }
        closes == { i \in 1..Len(s) : s[i] = ">" }
    IN  IF opens = {} \/ closes = {} THEN <<>>
        ELSE SplitTopLevel(SubSeq(s, (CHOOSE i \in opens : \A j \in opens : i <= j) + 1,
                                     (CHOOSE i \in closes : \A j \in closes : j <= i) - 1))

\* C10: extractTypeInfo returns isGeneric = true exactly when raw contains
\* '<', and typeParameters equal to the text between the first '<' and the
\* final '>' of raw split on top-level commas, each piece trimmed; empty when
\* raw contains no '<'.
C10_TypeParametersAsStated ==
    pc = "done" =>
        /\ typeInfo.isGeneric = (\E i \in 1..Len(raw) : raw[i] = "<")
        /\ typeInfo.typeParameters = StatedTypeParameters(raw)

(***************************************************************************)
(* The export count and the totality of the module name.                   *)
(***************************************************************************)
\* The declarations the classifier keeps under the variant: all of them
\* under 'internal', those that are not private under 'public'.
Retained ==
    { i \in 1..Len(declarations) :
        variant = "internal" \/ ~Restricted(declarations[i]) }

\* C11: in every result of extractModule, metadata.exportCount equals the
\* length of exports, and that length equals the number of exported
\* declarations the classifier kept under the variant, each declaration of a
\* group that shares one exported name counted separately.
C11_ExportCountIsRetained ==
    Returned =>
        /\ result.value.metadata.exportCount = Len(Exports)
        /\ Len(Exports) = Cardinality(Retained)

\* A 'public' run that drops one declaration and keeps two that share a name.
C11_Witness ==
    /\ Returned /\ variant = "public"
    /\ Len(declarations) = MaxDecls
    /\ Cardinality(Retained) = Len(declarations) - 1
    /\ \E i, j \in Retained :
           i # j /\ getName(declarations[i]) = getName(declarations[j])
    /\ result.value.metadata.exportCount = Len(declarations) - 1

\* C12: deriveModuleName is total: for every path, one whose last segment is
\* 'src' and one that ends in '/' included, it returns a string and does not
\* raise.
C12_ModuleNameTotal ==
    pc = "done" => result.status = "returns"

====
